---- MODULE Spec2Model ----
(***************************************************************************)
(* Model of ProxyRotatingAIAgent (src/ai_agent_with_proxy.py): the proxy   *)
(* pool and its cursor, the make_request retry loop, and the public        *)
(* operations send_message, get_agent_status and stream_chat built on it.  *)
(***************************************************************************)
EXTENDS Integers, Sequences, FiniteSets, TLC

\* ---------------------------------------------------------------- bounds
MaxPool == 3          \* longest proxy list given to the constructor
MaxHist == MaxPool + 3       \* get_next_proxy returns recorded since construction
MaxLines == 2         \* lines delivered by one streaming response
NumThreads == 2       \* concurrent callers of get_next_proxy
MaxConcCalls == 3     \* get_next_proxy calls started by the concurrent callers
MaxBody == 5          \* bytes of a streaming response body
MaxClientPool == 1    \* longest proxy list when the three clients run side by side
MaxFile == 3          \* characters of the proxy file
MaxEnv == 3           \* characters of HTTP_PROXIES
MaxCmds == 3          \* non-blank command lines given to the console

\* ---------------------------------------------------------------- values
Endpoints == {"p1", "p2"}
NoProxy == "None"

\* Outcome of one physical attempt (session.request + raise_for_status):
\*   Success     2xx response
\*   ProxyError  requests.exceptions.ProxyError
\*   Transient   RequestException for a network error or a status in
\*               429/500/502/503/504 (ConnectionError, Timeout, HTTPError)
\*   Fatal       RequestException for a non-retryable status (HTTPError 404)
\*   Other       an exception that is not a RequestException (TypeError for
\*               a payload json cannot serialise)
Outcomes == {"Success", "ProxyError", "Transient", "Fatal", "Other"}

\* Is the exception an instance of requests.exceptions.RequestException ?
IsRequestException(e) ==
    e \in {"ProxyError", "Transient", "Fatal", "Generic", "ChunkedEncodingError",
           "JSONDecodeError"}

Operations == {"send_message", "get_agent_status", "stream_chat"}

Pools == UNION {[1..n -> Endpoints] : n \in 0..MaxPool}

VARIABLES
    proxies,              \* self.proxies
    current_proxy_index,  \* self.current_proxy_index
    pc,                   \* position of the (single) caller
    op,                   \* public operation in progress
    max_attempts,         \* make_request local
    attempt,              \* make_request loop variable
    log,                  \* physical attempts of the current make_request
    mr,                   \* how make_request ended
    ret,                  \* how the public operation ended
    yielded,              \* records yielded by the current stream_chat
    nlines,               \* lines read from the current streaming body
    handed,               \* get_next_proxy returns since construction
    tpc, tproxy, tidx, tcalls,  \* concurrent callers of get_next_proxy
    content,              \* bytes of the streaming response body
    rpos,                 \* number of bytes of body received so far
    pending,              \* iter_lines: the carried incomplete line
    proxy_file,           \* load_proxy_list: text of the proxy file, or NoFile
    env_proxies,          \* load_proxy_list: value of HTTP_PROXIES
    loaded,               \* how load_proxy_list ended
    active_bots,          \* console: module-level active_bots
    command_history,      \* console: module-level command_history
    command_line,         \* console: argument of the last process call
    result                \* console: what the last process call returned

vars == <<proxies, current_proxy_index, pc, op, max_attempts, attempt, log,
          mr, ret, yielded, nlines, handed, tpc, tproxy, tidx, tcalls,
          content, rpos, pending, proxy_file, env_proxies, loaded,
          active_bots, command_history, command_line, result>>

clientVars == <<proxies, current_proxy_index>>
reqVars == <<max_attempts, attempt, log, mr>>
streamVars == <<yielded, nlines>>
threadVars == <<tpc, tproxy, tidx, tcalls>>
chunkVars == <<content, rpos, pending>>
loadVars == <<proxy_file, env_proxies, loaded>>
consoleVars == <<active_bots, command_history, command_line, result>>
auxVars == <<loadVars, consoleVars>>

Threads == 1..NumThreads

None == [kind |-> "none"]
NoFile == <<"NoFile">>     \* os.path.exists(proxy_file) is false
NoBots == [p \in {} |-> "none"]

\* ------------------------------------------------------- get_next_proxy
\* Lines 38-49: the endpoint at the cursor and the advanced cursor; None and
\* an untouched cursor for an empty pool.
get_next_proxy_ReturnsAfterAdvance(ps, idx) ==
    IF Len(ps) = 0
    THEN [proxy |-> NoProxy, index |-> idx]
    ELSE [proxy |-> ps[((idx + 1) % Len(ps)) + 1], index |-> (idx + 1) % Len(ps)]

get_next_proxy_NoAdvance(ps, idx) ==
    IF Len(ps) = 0
    THEN [proxy |-> NoProxy, index |-> idx]
    ELSE [proxy |-> ps[idx + 1], index |-> idx]

get_next_proxy_EmptyAdvances(ps, idx) ==
    IF Len(ps) = 0
    THEN [proxy |-> NoProxy, index |-> idx + 1]
    ELSE [proxy |-> ps[idx + 1], index |-> (idx + 1) % Len(ps)]

get_next_proxy_WrapLate(ps, idx) ==
    IF Len(ps) = 0
    THEN [proxy |-> NoProxy, index |-> idx]
    ELSE [proxy |-> ps[(idx % Len(ps)) + 1],
          index |-> IF idx + 1 > Len(ps) THEN 0 ELSE idx + 1]

get_next_proxy(ps, idx) ==
    IF Len(ps) = 0
    THEN [proxy |-> NoProxy, index |-> idx]
    ELSE [proxy |-> ps[idx + 1], index |-> (idx + 1) % Len(ps)]

MaxAttempts_OffByOne(ps) == IF Len(ps) > 0 THEN Len(ps) + 2 ELSE 2

\* Line 53.
MaxAttempts(ps) == IF Len(ps) > 0 THEN Len(ps) + 1 ELSE 1

\* What a get_next_proxy return adds to the history: the position read and
\* the endpoint returned (nothing for None).
Hand(h, idx, g) ==
    IF g.proxy = NoProxy THEN h ELSE Append(h, [idx |-> idx, proxy |-> g.proxy])

\* ------------------------------------------------------------ __init__
\* Lines 11-15: proxies or [], cursor 0.
Init ==
    /\ proxies \in Pools
    /\ current_proxy_index = 0
    /\ pc = "idle"
    /\ op = "none"
    /\ max_attempts = 0
    /\ attempt = 0
    /\ log = <<>>
    /\ mr = None
    /\ ret = None
    /\ yielded = <<>>
    /\ nlines = 0
    /\ handed = <<>>
    /\ tpc = [t \in Threads |-> "idle"]
    /\ tproxy = [t \in Threads |-> [idx |-> 0, proxy |-> NoProxy]]
    /\ tidx = [t \in Threads |-> 0]
    /\ tcalls = 0
    /\ content = <<>>
    /\ rpos = 0
    /\ pending = <<>>
    /\ proxy_file = NoFile
    /\ env_proxies = <<>>
    /\ loaded = None
    /\ active_bots = NoBots
    /\ command_history = <<>>
    /\ command_line = <<>>
    /\ result = None

\* A value returned to the caller, an exception raised to the caller.
Value(v) == [kind |-> "value", value |-> v]
Raised(e) == [kind |-> "raised", value |-> e]

\* A direct call of the public method get_next_proxy by the caller.
CallGetNextProxy ==
    /\ pc = "idle"
    /\ Len(handed) < MaxHist
    /\ LET g == get_next_proxy(proxies, current_proxy_index)
       IN /\ current_proxy_index' = g.index
          /\ handed' = Hand(handed, current_proxy_index, g)
          /\ ret' = Value(g.proxy)
    /\ op' = "get_next_proxy"
    /\ max_attempts' = 0
    /\ attempt' = 0
    /\ log' = <<>>
    /\ mr' = None
    /\ yielded' = <<>>
    /\ nlines' = 0
    /\ UNCHANGED <<proxies, pc, threadVars, chunkVars, auxVars>>

\* ---------------------------------------------------------- make_request
\* send_message / get_agent_status / stream_chat enter make_request
\* (lines 87, 100, 114); line 53 computes max_attempts.
Call_ResetsCursor(o) ==
    /\ pc = "idle"
    /\ Len(handed) + MaxAttempts(proxies) <= MaxHist
    /\ op' = o
    /\ max_attempts' = MaxAttempts(proxies)
    /\ attempt' = 0
    /\ log' = <<>>
    /\ mr' = None
    /\ ret' = None
    /\ yielded' = <<>>
    /\ nlines' = 0
    /\ pc' = "loop"
    /\ current_proxy_index' = 0
    /\ UNCHANGED <<proxies, handed, threadVars, chunkVars, auxVars>>

Call(o) ==
    /\ pc = "idle"
    /\ Len(handed) + MaxAttempts(proxies) <= MaxHist
    /\ op' = o
    /\ max_attempts' = MaxAttempts(proxies)
    /\ attempt' = 0
    /\ log' = <<>>
    /\ mr' = None
    /\ ret' = None
    /\ yielded' = <<>>
    /\ nlines' = 0
    /\ pc' = "loop"
    /\ UNCHANGED <<clientVars, handed, threadVars, chunkVars, auxVars>>

\* Lines 63-74: what the loop body does with the outcome of an attempt.
\*   return     line 65
\*   continue   line 69
\*   raise      line 72 (raise e)
\*   sleep      line 74
\*   propagate  no except clause matches
Handle_NoReturnOnSuccess(o, last) ==
    CASE o = "Success" -> "continue"
      [] o = "ProxyError" -> "continue"
      [] IsRequestException(o) -> IF last THEN "raise" ELSE "sleep"
      [] OTHER -> "propagate"

Handle_ProxyErrorSleeps(o, last) ==
    CASE o = "Success" -> "return"
      [] IsRequestException(o) -> IF last THEN "raise" ELSE "sleep"
      [] OTHER -> "propagate"

Handle_AlwaysSleeps(o, last) ==
    CASE o = "Success" -> "return"
      [] o = "ProxyError" -> "continue"
      [] IsRequestException(o) -> "sleep"
      [] OTHER -> "propagate"

Handle(o, last) ==
    CASE o = "Success" -> "return"
      [] o = "ProxyError" -> "continue"
      [] IsRequestException(o) -> IF last THEN "raise" ELSE "sleep"
      [] OTHER -> "propagate"

\* How make_request ends after the attempt with index a: the response of
\* that attempt, the exception of that attempt, or the generic exception of
\* line 76 when the loop is used up.
Ended_RaisesGeneric(ctl, o, a, last) ==
    CASE ctl = "return" -> [kind |-> "return", exc |-> "none", attempt |-> a]
      [] ctl = "raise" -> [kind |-> "raise", exc |-> "Generic", attempt |-> -1]
      [] ctl = "propagate" -> [kind |-> "raise", exc |-> o, attempt |-> a]
      [] ctl = "continue" /\ last -> [kind |-> "raise", exc |-> "Generic", attempt |-> -1]
      [] OTHER -> None

Ended_FallsOut(ctl, o, a, last) ==
    CASE ctl = "return" -> [kind |-> "return", exc |-> "none", attempt |-> a]
      [] ctl = "raise" -> [kind |-> "raise", exc |-> o, attempt |-> a]
      [] ctl = "propagate" -> [kind |-> "raise", exc |-> o, attempt |-> a]
      [] ctl = "continue" /\ last -> [kind |-> "return", exc |-> "none", attempt |-> -1]
      [] OTHER -> None

Ended(ctl, o, a, last) ==
    CASE ctl = "return" -> [kind |-> "return", exc |-> "none", attempt |-> a]
      [] ctl = "raise" -> [kind |-> "raise", exc |-> o, attempt |-> a]
      [] ctl = "propagate" -> [kind |-> "raise", exc |-> o, attempt |-> a]
      [] ctl = "continue" /\ last -> [kind |-> "raise", exc |-> "Generic", attempt |-> -1]
      [] OTHER -> None

\* One iteration of the loop of lines 55-74: select the proxy, issue the
\* physical request, handle its outcome.
Attempt_RotatesPool(o) ==
    /\ pc = "loop"
    /\ attempt < max_attempts
    /\ LET g == get_next_proxy(proxies, current_proxy_index)
           last == (attempt = max_attempts - 1)
           ctl == Handle(o, last)
           e == Ended(ctl, o, attempt, last)
       IN /\ current_proxy_index' = g.index
          /\ handed' = Hand(handed, current_proxy_index, g)
          /\ log' = Append(log, [attempt |-> attempt, proxy |-> g.proxy,
                                 outcome |-> o, slept |-> (ctl = "sleep")])
          /\ mr' = e
          /\ pc' = IF e # None THEN "mr_done"
                   ELSE IF ctl = "sleep" THEN "sleep" ELSE "loop"
          /\ attempt' = IF ctl = "continue" /\ ~last THEN attempt + 1 ELSE attempt
    /\ proxies' = IF o = "ProxyError" /\ Len(proxies) > 0
                  THEN Append(Tail(proxies), Head(proxies)) ELSE proxies
    /\ UNCHANGED <<op, max_attempts, ret, streamVars, threadVars, chunkVars, auxVars>>

Attempt_LastDirect(o) ==
    /\ pc = "loop"
    /\ attempt < max_attempts
    /\ LET g == IF attempt = max_attempts - 1
                THEN [proxy |-> NoProxy, index |-> current_proxy_index]
                ELSE get_next_proxy(proxies, current_proxy_index)
           last == (attempt = max_attempts - 1)
           ctl == Handle(o, last)
           e == Ended(ctl, o, attempt, last)
       IN /\ current_proxy_index' = g.index
          /\ handed' = Hand(handed, current_proxy_index, g)
          /\ log' = Append(log, [attempt |-> attempt, proxy |-> g.proxy,
                                 outcome |-> o, slept |-> (ctl = "sleep")])
          /\ mr' = e
          /\ pc' = IF e # None THEN "mr_done"
                   ELSE IF ctl = "sleep" THEN "sleep" ELSE "loop"
          /\ attempt' = IF ctl = "continue" /\ ~last THEN attempt + 1 ELSE attempt
    /\ UNCHANGED <<proxies, op, max_attempts, ret, streamVars, threadVars, chunkVars, auxVars>>

Attempt(o) ==
    /\ pc = "loop"
    /\ attempt < max_attempts
    /\ LET g == get_next_proxy(proxies, current_proxy_index)
           last == (attempt = max_attempts - 1)
           ctl == Handle(o, last)
           e == Ended(ctl, o, attempt, last)
       IN /\ current_proxy_index' = g.index
          /\ handed' = Hand(handed, current_proxy_index, g)
          /\ log' = Append(log, [attempt |-> attempt, proxy |-> g.proxy,
                                 outcome |-> o, slept |-> (ctl = "sleep")])
          /\ mr' = e
          /\ pc' = IF e # None THEN "mr_done"
                   ELSE IF ctl = "sleep" THEN "sleep" ELSE "loop"
          /\ attempt' = IF ctl = "continue" /\ ~last THEN attempt + 1 ELSE attempt
    /\ UNCHANGED <<proxies, op, max_attempts, ret, streamVars, threadVars, chunkVars, auxVars>>

\* Line 74: time.sleep(random.uniform(1, 3)) ends; the loop goes on.
Wake ==
    /\ pc = "sleep"
    /\ pc' = "loop"
    /\ attempt' = attempt + 1
    /\ UNCHANGED <<clientVars, op, max_attempts, log, mr, ret, streamVars,
                   handed, threadVars, chunkVars, auxVars>>

\* ------------------------------------------- send_message, get_agent_status
\* The message of an error record: f'{prefix}{str(e)}'.
Prefix_AllRequestFailed(o) ==
    CASE o = "send_message" -> "Request failed: "
      [] o = "get_agent_status" -> "Request failed: "
      [] OTHER -> "Stream failed: "

Prefix(o) ==
    CASE o = "send_message" -> "Request failed: "
      [] o = "get_agent_status" -> "Status check failed: "
      [] OTHER -> "Stream failed: "

ErrorRecord(o, e) == [error |-> <<Prefix(o), e>>]

\* The except clause of lines 94-95, 102-103 and 133-134 catches
\* RequestException only; any other exception leaves the operation.
Caught(o, e) == IF IsRequestException(e) THEN Value(ErrorRecord(o, e)) ELSE Raised(e)

\* response.json() (lines 93, 101): the decoded body, or for a body that is
\* not JSON requests.exceptions.JSONDecodeError, which is a RequestException
\* and is caught by the except clause of the operation.
BodyKinds == {"json", "notjson"}

DecodeBody(o, body) ==
    IF body = "json" THEN Value([body |-> "json"])
    ELSE Caught(o, "JSONDecodeError")

\* Lines 86-95 and 99-103 after make_request has ended.
JsonReturn(body) ==
    /\ pc = "mr_done"
    /\ op \in {"send_message", "get_agent_status"}
    /\ ret' = IF mr.kind = "return" THEN DecodeBody(op, body)
              ELSE Caught(op, mr.exc)
    /\ pc' = "idle"
    /\ UNCHANGED <<clientVars, op, reqVars, streamVars, handed, threadVars, chunkVars, auxVars>>

\* ----------------------------------------------------- AIAgentClient
\* src/ai_agent_integration.py: one session.post / session.get per call, no
\* proxy pool, no retry loop; RequestException becomes an error record.
AIAgentOps == {"AIAgentClient.send_message", "AIAgentClient.get_agent_status"}

AIAgentPrefix(o) ==
    IF o = "AIAgentClient.send_message" THEN "Request failed: "
    ELSE "Status check failed: "

AIAgentResult(o, out, b) ==
    LET e == IF out = "Success" THEN "JSONDecodeError" ELSE out
    IN IF out = "Success" /\ b = "json" THEN Value([body |-> "json"])
       ELSE IF IsRequestException(e) THEN Value([error |-> <<AIAgentPrefix(o), e>>])
       ELSE Raised(e)

\* The single physical attempt of a client without a pool.
OneAttempt(out) == <<[attempt |-> 0, proxy |-> NoProxy, outcome |-> out, slept |-> FALSE]>>

AIAgentCall(o, out, b) ==
    /\ pc = "idle"
    /\ op' = o
    /\ log' = OneAttempt(out)
    /\ ret' = AIAgentResult(o, out, b)
    /\ max_attempts' = 0
    /\ attempt' = 0
    /\ mr' = None
    /\ yielded' = <<>>
    /\ nlines' = 0
    /\ UNCHANGED <<clientVars, pc, handed, threadVars, chunkVars, auxVars>>

\* ----------------------------------------------------- SimpleAIAgent
\* src/simple_ai_agent.py, _make_request (lines 22-45).  Outcome of urlopen:
\*   Success    a response whose body is read (line 34)
\*   HTTPError  urllib.error.HTTPError; its body is read at line 38
\*   URLError   urllib.error.URLError (unreachable host)
\*   Other      any other exception
\* The body read is JSON, text that is not JSON, or not UTF-8.
SimpleOps == {"SimpleAIAgent.send_message", "SimpleAIAgent.get_status"}
SimpleOutcomes == {"Success", "HTTPError", "URLError", "Other"}
SimpleBodies == {"json", "notjson", "badutf8"}

SimpleResult(out, b) ==
    CASE out = "Success" /\ b = "json" -> Value([body |-> "json"])
      [] out = "Success" /\ b = "notjson" -> Value([error |-> <<"JSON Error: ", "JSONDecodeError">>])
      [] out = "Success" /\ b = "badutf8" -> Value([error |-> <<"Request failed: ", "UnicodeDecodeError">>])
      [] out = "HTTPError" /\ b = "badutf8" -> Raised("UnicodeDecodeError")
      [] out = "HTTPError" -> Value([error |-> <<"HTTP code: ", b>>])
      [] out = "URLError" -> Value([error |-> <<"URL Error: ", out>>])
      [] OTHER -> Value([error |-> <<"Request failed: ", out>>])

SimpleCall(o, out, b) ==
    /\ pc = "idle"
    /\ op' = o
    /\ log' = OneAttempt(out)
    /\ ret' = SimpleResult(out, b)
    /\ max_attempts' = 0
    /\ attempt' = 0
    /\ mr' = None
    /\ yielded' = <<>>
    /\ nlines' = 0
    /\ UNCHANGED <<clientVars, pc, handed, threadVars, chunkVars, auxVars>>

\* ------------------------------------------------------------ stream_chat
LineKinds == {"json", "malformed", "empty", "badutf8"}

\* Lines 113-124 after make_request has ended: the stream is established,
\* or the failure is yielded as an error record (line 134), or it escapes.
StreamEstablish ==
    /\ pc = "mr_done"
    /\ op = "stream_chat"
    /\ IF mr.kind = "return"
       THEN /\ pc' = "stream"
            /\ UNCHANGED <<ret, yielded>>
       ELSE /\ pc' = "idle"
            /\ ret' = IF IsRequestException(mr.exc) THEN Value("StopIteration")
                      ELSE Raised(mr.exc)
            /\ yielded' = IF IsRequestException(mr.exc)
                          THEN Append(yielded, ErrorRecord(op, mr.exc))
                          ELSE yielded
    /\ UNCHANGED <<clientVars, op, reqVars, nlines, handed, threadVars, chunkVars, auxVars>>

\* Lines 124-131 for one line handed over by response.iter_lines().
StreamLine(k) ==
    /\ pc = "stream"
    /\ nlines < MaxLines
    /\ nlines' = nlines + 1
    /\ CASE k = "json" ->
              /\ yielded' = Append(yielded, [line |-> nlines + 1])
              /\ UNCHANGED <<pc, ret>>
         [] k = "badutf8" ->
              /\ ret' = Raised("UnicodeDecodeError")
              /\ pc' = "idle"
              /\ UNCHANGED yielded
         [] OTHER -> UNCHANGED <<pc, ret, yielded>>
    /\ UNCHANGED <<clientVars, op, reqVars, handed, threadVars, chunkVars, auxVars>>

StreamFail_Continues ==
    /\ pc = "stream"
    /\ Len(yielded) <= MaxLines
    /\ yielded' = Append(yielded, ErrorRecord(op, "ChunkedEncodingError"))
    /\ UNCHANGED <<clientVars, pc, op, reqVars, ret, nlines, handed, threadVars, chunkVars, auxVars>>

StreamFail_Retries ==
    /\ pc = "stream"
    /\ pc' = "loop"
    /\ UNCHANGED <<clientVars, op, reqVars, ret, streamVars, handed, threadVars, chunkVars, auxVars>>

\* response.iter_lines() raises a transport error mid-stream (line 133).
StreamFail ==
    /\ pc = "stream"
    /\ yielded' = Append(yielded, ErrorRecord(op, "ChunkedEncodingError"))
    /\ ret' = Value("StopIteration")
    /\ pc' = "idle"
    /\ UNCHANGED <<clientVars, op, reqVars, nlines, handed, threadVars, chunkVars, auxVars>>

\* The source is exhausted; the generator ends.
StreamEnd ==
    /\ pc = "stream"
    /\ ret' = Value("StopIteration")
    /\ pc' = "idle"
    /\ UNCHANGED <<clientVars, op, reqVars, streamVars, handed, threadVars, chunkVars, auxVars>>

\* --------------------------------------- stream_chat, chunk by chunk
\* The body arrives in chunks of any size; response.iter_lines() (line 124)
\* splits what has accumulated with bytes.splitlines() and carries an
\* incomplete last line over to the next chunk.  Bytes:
\*   D   a digit (every non-empty run of digits is a JSON document)
\*   X   an ASCII byte that is not JSON
\*   FF  a byte that is not valid UTF-8
\*   NL, CR  the line terminators \n and \r (\r\n is one terminator)
Bytes == {"D", "X", "FF", "NL", "CR"}
Terminators == {"NL", "CR"}
Bodies == UNION {[1..n -> Bytes] : n \in 0..MaxBody}

Front(q) == SubSeq(q, 1, Len(q) - 1)

\* bytes.splitlines(): the lines of s without their terminators; a trailing
\* terminator opens no further line.
RECURSIVE SplitFrom(_, _, _, _)
SplitFrom(s, i, cur, acc) ==
    IF i > Len(s)
    THEN IF cur # <<>> THEN Append(acc, cur) ELSE acc
    ELSE IF s[i] = "NL"
         THEN SplitFrom(s, i + 1, <<>>, Append(acc, cur))
         ELSE IF s[i] = "CR"
              THEN IF i + 1 <= Len(s) /\ s[i + 1] = "NL"
                   THEN SplitFrom(s, i + 2, <<>>, Append(acc, cur))
                   ELSE SplitFrom(s, i + 1, <<>>, Append(acc, cur))
              ELSE SplitFrom(s, i + 1, Append(cur, s[i]), acc)

SplitLines(s) == SplitFrom(s, 1, <<>>, <<>>)

IterLinesStep_NoCarry(pend, chunk) ==
    [lines |-> SplitLines(pend \o chunk), pending |-> <<>>]

\* One round of the loop of iter_lines: the lines handed over for a chunk
\* and the new pending fragment.
IterLinesStep(pend, chunk) ==
    LET data == pend \o chunk
        lines == SplitLines(data)
    IN IF lines # <<>> /\ lines[Len(lines)] # <<>>
          /\ lines[Len(lines)][Len(lines[Len(lines)])] = data[Len(data)]
       THEN [lines |-> Front(lines), pending |-> lines[Len(lines)]]
       ELSE [lines |-> lines, pending |-> <<>>]

\* line.decode('utf-8') and json.loads (line 127).
IsUtf8(line) == \A i \in 1..Len(line) : line[i] # "FF"
IsJson(line) == line # <<>> /\ \A i \in 1..Len(line) : line[i] = "D"

\* Lines 125-131 over the lines handed over: an empty line is skipped, a
\* line that is not UTF-8 raises UnicodeDecodeError out of the generator, a
\* JSON line is yielded, any other line is dropped.
RECURSIVE ProcessLines(_, _, _)
ProcessLines(lines, i, y) ==
    IF i > Len(lines) THEN [yielded |-> y, raised |-> FALSE]
    ELSE IF lines[i] = <<>> THEN ProcessLines(lines, i + 1, y)
    ELSE IF ~IsUtf8(lines[i]) THEN [yielded |-> y, raised |-> TRUE]
    ELSE IF IsJson(lines[i]) THEN ProcessLines(lines, i + 1, Append(y, [data |-> lines[i]]))
    ELSE ProcessLines(lines, i + 1, y)

\* The state in which stream_chat has established the stream: make_request
\* returned the response of its first attempt (empty pool).
InitStream ==
    /\ proxies = <<>>
    /\ current_proxy_index = 0
    /\ pc = "stream"
    /\ op = "stream_chat"
    /\ max_attempts = 1
    /\ attempt = 0
    /\ log = <<[attempt |-> 0, proxy |-> NoProxy, outcome |-> "Success", slept |-> FALSE]>>
    /\ mr = [kind |-> "return", exc |-> "none", attempt |-> 0]
    /\ ret = None
    /\ yielded = <<>>
    /\ nlines = 0
    /\ handed = <<>>
    /\ tpc = [t \in Threads |-> "idle"]
    /\ tproxy = [t \in Threads |-> [idx |-> 0, proxy |-> NoProxy]]
    /\ tidx = [t \in Threads |-> 0]
    /\ tcalls = 0
    /\ content \in Bodies
    /\ rpos = 0
    /\ pending = <<>>
    /\ proxy_file = NoFile
    /\ env_proxies = <<>>
    /\ loaded = None
    /\ active_bots = NoBots
    /\ command_history = <<>>
    /\ command_line = <<>>
    /\ result = None

\* The next k bytes of the body arrive: one round of iter_lines, and lines
\* 125-131 for every line it hands over.
RecvChunk(k) ==
    /\ pc = "stream"
    /\ rpos + k <= Len(content)
    /\ LET st == IterLinesStep(pending, SubSeq(content, rpos + 1, rpos + k))
           r == ProcessLines(st.lines, 1, yielded)
       IN /\ yielded' = r.yielded
          /\ pending' = st.pending
          /\ IF r.raised
             THEN ret' = Raised("UnicodeDecodeError") /\ pc' = "idle"
             ELSE UNCHANGED <<ret, pc>>
    /\ rpos' = rpos + k
    /\ UNCHANGED <<clientVars, op, reqVars, nlines, handed, threadVars, content, auxVars>>

RecvEnd_DiscardsPending ==
    /\ pc = "stream"
    /\ rpos = Len(content)
    /\ ret' = Value("StopIteration")
    /\ pc' = "idle"
    /\ pending' = <<>>
    /\ UNCHANGED <<clientVars, op, reqVars, yielded, nlines, handed, threadVars, content, rpos, auxVars>>

\* The source is exhausted: iter_lines hands over the pending fragment, if
\* any, as the last line, and the generator ends.
RecvEnd ==
    /\ pc = "stream"
    /\ rpos = Len(content)
    /\ LET r == ProcessLines(IF pending # <<>> THEN <<pending>> ELSE <<>>, 1, yielded)
       IN /\ yielded' = r.yielded
          /\ ret' = IF r.raised THEN Raised("UnicodeDecodeError")
                    ELSE Value("StopIteration")
    /\ pc' = "idle"
    /\ pending' = <<>>
    /\ UNCHANGED <<clientVars, op, reqVars, nlines, handed, threadVars, content, rpos, auxVars>>

\* ----------------------------------------- concurrent get_next_proxy
\* Several threads call get_next_proxy on the same client.  Lines 43-44 are
\* three separate accesses of the shared cursor, and a thread switch can
\* happen between any two of them.

\* Lines 40-43: the emptiness test and the read of proxies[cursor].
T_ReadProxy(t) ==
    /\ tpc[t] = "idle"
    /\ tcalls < MaxConcCalls
    /\ tcalls' = tcalls + 1
    /\ IF Len(proxies) = 0
       THEN UNCHANGED <<tpc, tproxy>>
       ELSE /\ tproxy' = [tproxy EXCEPT ![t] = [idx |-> current_proxy_index,
                                               proxy |-> proxies[current_proxy_index + 1]]]
            /\ tpc' = [tpc EXCEPT ![t] = "load"]
    /\ UNCHANGED <<clientVars, pc, op, reqVars, ret, streamVars, chunkVars, handed, tidx, auxVars>>

\* Line 44, right-hand side: the cursor is loaded.
T_LoadIndex(t) ==
    /\ tpc[t] = "load"
    /\ tidx' = [tidx EXCEPT ![t] = current_proxy_index]
    /\ tpc' = [tpc EXCEPT ![t] = "store"]
    /\ UNCHANGED <<clientVars, pc, op, reqVars, ret, streamVars, chunkVars, handed, tproxy, tcalls, auxVars>>

\* Line 44, assignment, and the return of lines 46-49.
T_StoreIndex(t) ==
    /\ tpc[t] = "store"
    /\ current_proxy_index' = (tidx[t] + 1) % Len(proxies)
    /\ handed' = Append(handed, tproxy[t])
    /\ tpc' = [tpc EXCEPT ![t] = "idle"]
    /\ UNCHANGED <<proxies, pc, op, reqVars, ret, streamVars, chunkVars, tproxy, tidx, tcalls, auxVars>>

NextConc ==
    \/ \E t \in Threads : T_ReadProxy(t)
    \/ \E t \in Threads : T_LoadIndex(t)
    \/ \E t \in Threads : T_StoreIndex(t)

SpecConc == Init /\ [][NextConc]_vars

NextStream ==
    \/ \E k \in 1..MaxBody : RecvChunk(k)
    \/ StreamFail
    \/ RecvEnd

SpecStream == InitStream /\ [][NextStream]_vars

Next ==
    \/ CallGetNextProxy
    \/ \E o \in Operations : Call(o)
    \/ \E o \in Outcomes : Attempt(o)
    \/ Wake
    \/ \E b \in BodyKinds : JsonReturn(b)
    \/ StreamEstablish
    \/ \E k \in LineKinds : StreamLine(k)
    \/ StreamFail
    \/ StreamEnd

Spec == Init /\ [][Next]_vars

\* The three clients side by side, the proxy-rotating one with a short pool.
InitClients == Init /\ Len(proxies) <= MaxClientPool

NextClients ==
    \/ Next
    \/ \E o \in AIAgentOps, out \in Outcomes, b \in BodyKinds : AIAgentCall(o, out, b)
    \/ \E o \in SimpleOps, out \in SimpleOutcomes, b \in SimpleBodies : SimpleCall(o, out, b)

SpecClients == InitClients /\ [][NextClients]_vars

\* ------------------------------------------------------- load_proxy_list
\* Characters of the two sources: a letter, a blank, the comment sign, the
\* comma and the newline.
Chars == {"a", "SP", "#", ",", "NL"}
Whitespace == {"SP", "NL"}
Texts(n) == UNION {[1..k -> Chars] : k \in 0..n}

\* str.strip(): leading and trailing whitespace removed.
RECURSIVE LStrip(_)
LStrip(s) == IF s # <<>> /\ Head(s) \in Whitespace THEN LStrip(Tail(s)) ELSE s

RECURSIVE RStrip(_)
RStrip(s) ==
    IF s # <<>> /\ s[Len(s)] \in Whitespace THEN RStrip(SubSeq(s, 1, Len(s) - 1)) ELSE s

Strip(s) == RStrip(LStrip(s))

\* Line 143, for line in f: the lines of the text, each with its newline.
RECURSIVE ReadLines(_, _)
ReadLines(text, cur) ==
    IF text = <<>> THEN (IF cur = <<>> THEN <<>> ELSE <<cur>>)
    ELSE IF Head(text) = "NL" THEN <<Append(cur, "NL")>> \o ReadLines(Tail(text), <<>>)
    ELSE ReadLines(Tail(text), Append(cur, Head(text)))

\* Lines 143-146: the loop over the lines of the file.
RECURSIVE KeepLines(_, _)
KeepLines(lines, acc) ==
    IF lines = <<>> THEN acc
    ELSE LET line == Strip(Head(lines))
         IN KeepLines(Tail(lines),
                      IF line # <<>> /\ Head(line) # "#" THEN Append(acc, line) ELSE acc)

\* str.split(','): the pieces between the commas, empty ones included.
RECURSIVE Split(_, _)
Split(text, cur) ==
    IF text = <<>> THEN <<cur>>
    ELSE IF Head(text) = "," THEN <<cur>> \o Split(Tail(text), <<>>)
    ELSE Split(Tail(text), Append(cur, Head(text)))

\* Line 153: [p.strip() for p in proxies if p.strip()].
StripAll(ps) == SelectSeq([i \in 1..Len(ps) |-> Strip(ps[i])], LAMBDA e : e # <<>>)

\* Lines 136-153.
load_proxy_list_CommentsInEnv(file, env) ==
    LET fromFile == IF file = NoFile THEN <<>> ELSE KeepLines(ReadLines(file, <<>>), <<>>)
        fromEnv == IF env # <<>> THEN KeepLines(Split(env, <<>>), <<>>) ELSE <<>>
    IN StripAll(fromFile \o fromEnv)

load_proxy_list(file, env) ==
    LET fromFile == IF file = NoFile THEN <<>> ELSE KeepLines(ReadLines(file, <<>>), <<>>)
        fromEnv == IF env # <<>> THEN Split(env, <<>>) ELSE <<>>
    IN StripAll(fromFile \o fromEnv)

\* The environment main() runs in: the proxy file may be missing.
InitLoad ==
    /\ proxies = <<>>
    /\ current_proxy_index = 0
    /\ pc = "idle"
    /\ op = "none"
    /\ max_attempts = 0
    /\ attempt = 0
    /\ log = <<>>
    /\ mr = None
    /\ ret = None
    /\ yielded = <<>>
    /\ nlines = 0
    /\ handed = <<>>
    /\ tpc = [t \in Threads |-> "idle"]
    /\ tproxy = [t \in Threads |-> [idx |-> 0, proxy |-> NoProxy]]
    /\ tidx = [t \in Threads |-> 0]
    /\ tcalls = 0
    /\ content = <<>>
    /\ rpos = 0
    /\ pending = <<>>
    /\ proxy_file \in {NoFile} \cup Texts(MaxFile)
    /\ env_proxies \in Texts(MaxEnv)
    /\ loaded = None
    /\ active_bots = NoBots
    /\ command_history = <<>>
    /\ command_line = <<>>
    /\ result = None

LoadProxyList ==
    /\ loaded = None
    /\ loaded' = Value(load_proxy_list(proxy_file, env_proxies))
    /\ UNCHANGED <<clientVars, pc, op, reqVars, ret, streamVars, handed, threadVars,
                   chunkVars, proxy_file, env_proxies, consoleVars>>

NextLoad == LoadProxyList

SpecLoad == InitLoad /\ [][NextLoad]_vars

\* --------------------------------------------- console CommandProcessor
\* A command line is a sequence of words and blanks ("SP").
Platforms == {"instagram", "facebook", "tiktok"}

CommandNames ==
    {"help", "status", "start", "stop", "comment", "generate", "validate",
     "config", "limits", "history", "clear", "platforms", "test"}

CommandLines ==
    {<<>>, <<"SP">>, <<"bogus">>, <<"SP", "START", "SP", "Instagram">>,
     <<"start", "SP", "tiktok">>}
    \cup {<<c>> : c \in CommandNames}
    \cup {<<c, "SP", a>> : c \in {"start", "stop"}, a \in {"instagram", "Facebook", "twitter"}}

\* State of comment_engine, quality_control and abuse_detection during a call.
Systems == {"loaded", "not_loaded", "failing"}

\* str.lower() on the words used here.
Lower(w) ==
    CASE w = "START" -> "start"
      [] w = "Instagram" -> "instagram"
      [] w = "Facebook" -> "facebook"
      [] OTHER -> w

\* command_line.strip().split()
Words(line) == SelectSeq(line, LAMBDA w : w # "SP")

Out(text, err) == [output |-> text, error |-> err]

Bot == [status |-> "running", comments_posted |-> 0]

\* Lines 172-198.
cmd_start_AnyPlatform(args, bots) ==
    IF args = <<>> THEN [bots |-> bots, result |-> Out("Usage: start <platform>", TRUE)]
    ELSE LET platform == Lower(args[1])
         IN IF platform \in DOMAIN bots
            THEN [bots |-> bots, result |-> Out("already running", FALSE)]
            ELSE [bots |-> [q \in DOMAIN bots \cup {platform} |->
                               IF q = platform THEN Bot ELSE bots[q]],
                  result |-> Out("Started", FALSE)]

cmd_start(args, bots) ==
    IF args = <<>> THEN [bots |-> bots, result |-> Out("Usage: start <platform>", TRUE)]
    ELSE LET platform == Lower(args[1])
         IN IF platform \notin Platforms
            THEN [bots |-> bots, result |-> Out("Invalid platform", TRUE)]
            ELSE IF platform \in DOMAIN bots
            THEN [bots |-> bots, result |-> Out("already running", FALSE)]
            ELSE [bots |-> [q \in DOMAIN bots \cup {platform} |->
                               IF q = platform THEN Bot ELSE bots[q]],
                  result |-> Out("Started", FALSE)]

\* Lines 200-210.
cmd_stop(args, bots) ==
    IF args = <<>> THEN [bots |-> bots, result |-> Out("Usage: stop <platform>", TRUE)]
    ELSE LET platform == Lower(args[1])
         IN IF platform \notin DOMAIN bots
            THEN [bots |-> bots, result |-> Out("No active bot found", TRUE)]
            ELSE [bots |-> [q \in DOMAIN bots \ {platform} |-> bots[q]],
                  result |-> Out("Stopped", FALSE)]

\* Lines 368-387 (count stays 10 without a numeric argument).
cmd_history(args, hist) ==
    IF hist = <<>> THEN Out("No command history available", FALSE)
    ELSE [output |-> "Last Commands", error |-> FALSE,
          shown |-> IF Len(hist) < 10 THEN Len(hist) ELSE 10]

\* Lines 389-391.
cmd_clear(args) == [output |-> "", error |-> FALSE, clear |-> TRUE]

\* The handlers that touch neither collection (lines 99-170, 212-366,
\* 393-425); Raised is an exception that leaves the handler.
Handler(cmd, args, sys) ==
    CASE cmd = "status" ->
            IF sys = "failing" THEN Raised("Exception") ELSE Out("Status", FALSE)
      [] cmd = "comment" /\ Len(args) < 2 -> Out("Usage: comment <platform> <number>", TRUE)
      [] cmd = "generate" ->
            IF sys = "not_loaded" THEN Out("Comment engine not loaded", TRUE)
            ELSE IF sys = "failing" THEN Out("Failed to generate comments", TRUE)
            ELSE Out("Sample comments", FALSE)
      [] cmd = "validate" /\ args = <<>> -> Out("Usage: validate <comment text>", TRUE)
      [] cmd = "limits" ->
            IF sys = "not_loaded" THEN Out("Abuse detection system not loaded", TRUE)
            ELSE IF sys = "failing" THEN Out("Failed to get limits", TRUE)
            ELSE Out("Current Platform Status & Limits", FALSE)
      [] cmd = "test" /\ args = <<>> -> Out("Usage: test <platform>", TRUE)
      [] OTHER -> Out(cmd, FALSE)

\* Lines 78-82: command_history.append(...) (timestamp and session left out).
AddToHistory_SkipsRepeat(hist, line) ==
    IF hist # <<>> /\ hist[Len(hist)].command = line THEN hist
    ELSE Append(hist, [command |-> line])

AddToHistory(hist, line) == Append(hist, [command |-> line])

\* Lines 84-96: dispatch, with the handler's exception turned into a result.
Dispatch(cmd, args, sys, bots, hist) ==
    IF cmd \notin CommandNames THEN [bots |-> bots, result |-> Out("Unknown command", TRUE)]
    ELSE CASE cmd = "start" -> cmd_start(args, bots)
           [] cmd = "stop" -> cmd_stop(args, bots)
           [] cmd = "history" -> [bots |-> bots, result |-> cmd_history(args, hist)]
           [] cmd = "clear" -> [bots |-> bots, result |-> cmd_clear(args)]
           [] OTHER ->
                LET r == Handler(cmd, args, sys)
                IN [bots |-> bots,
                    result |-> IF r = Raised("Exception") THEN Out("Error executing command", TRUE)
                               ELSE r]

\* Lines 69-97: CommandProcessor.process(command_line).
Process(line, sys) ==
    /\ command_line' = line
    /\ LET parts == Words(line)
       IN IF parts = <<>>
          THEN /\ result' = Out("", FALSE)
               /\ UNCHANGED <<active_bots, command_history>>
          ELSE /\ Len(command_history) < MaxCmds
               /\ command_history' = AddToHistory(command_history, line)
               /\ LET r == Dispatch(Lower(parts[1]), Tail(parts), sys,
                                    active_bots, command_history')
                  IN /\ active_bots' = r.bots
                     /\ result' = r.result
    /\ UNCHANGED <<clientVars, pc, op, reqVars, ret, streamVars, handed, threadVars,
                   chunkVars, loadVars>>

InitConsole == Init /\ proxies = <<>>

NextConsole == \E line \in CommandLines, sys \in Systems : Process(line, sys)

SpecConsole == InitConsole /\ [][NextConsole]_vars

\* Every physical attempt resolves, every backoff sleep ends, response.json()
\* returns or raises, and the streaming source delivers, fails or ends.
Fairness ==
    /\ WF_vars(\E o \in Outcomes : Attempt(o))
    /\ WF_vars(Wake)
    /\ WF_vars(\E b \in BodyKinds : JsonReturn(b))
    /\ WF_vars(StreamEstablish)
    /\ WF_vars((\E k \in LineKinds : StreamLine(k)) \/ StreamFail \/ StreamEnd)

SpecLive == Spec /\ Fairness

\* ------------------------------------------------------------ properties
N == Len(proxies)
InRequest == op \in Operations
Last(q) == q[Len(q)]
Range(q) == {q[i] : i \in 1..Len(q)}
Distinct(q) == \A i, j \in 1..Len(q) : q[i] = q[j] => i = j

\* C1 - attempt budget: one make_request invocation issues at most N+1
\* physical attempts for a pool of N >= 1 endpoints, and exactly one attempt
\* for an empty pool, whatever the outcomes of the attempts.
C1_AttemptBudget ==
    InRequest =>
        /\ N >= 1 => Len(log) <= N + 1
        /\ N = 0 => Len(log) <= 1
        /\ (N = 0 /\ mr # None) => Len(log) = 1

C1_Witness ==
    /\ InRequest
    /\ N >= 2
    /\ Len(log) = N + 1
    /\ mr # None
    /\ \E i \in 1..Len(log) : log[i].outcome = "Transient"

\* C2 - round-robin fairness: without interleaving, the endpoints returned
\* by get_next_proxy follow the pool list cyclically: a fresh client returns
\* the first element, each return is the list element after the previous
\* one, every N consecutive returns cover every list position exactly once,
\* and the (N+1)-th return equals the first of those N.
C2_RoundRobin ==
    N >= 1 =>
        /\ Len(handed) >= 1 => handed[1] = [idx |-> 0, proxy |-> proxies[1]]
        /\ \A k \in 1..Len(handed) : handed[k].proxy = proxies[handed[k].idx + 1]
        /\ \A k \in 1..(Len(handed) - 1) : handed[k + 1].idx = (handed[k].idx + 1) % N
        /\ \A k \in 1..(Len(handed) - N + 1) :
               {handed[k + i].idx : i \in 0..(N - 1)} = 0..(N - 1)
        /\ \A k \in 1..(Len(handed) - N) : handed[k + N] = handed[k]
        /\ Distinct(proxies) =>
               \A k \in 1..(Len(handed) - N + 1) :
                   {handed[k + i].proxy : i \in 0..(N - 1)} = Range(proxies)

C2_Witness ==
    /\ N >= 2
    /\ proxies[1] # proxies[2]
    /\ op = "get_next_proxy"
    /\ log = <<>>
    /\ Len(handed) >= N + 2

\* C3 - success stops the loop: a successful attempt is the last entry of
\* the invocation's attempts, make_request returns the response of that very
\* attempt without sleeping, and from then on the invocation makes no
\* attempt, selects no proxy and does not sleep.
C3_SuccessIsLast ==
    InRequest =>
        \A i \in 1..Len(log) :
            log[i].outcome = "Success" =>
                /\ i = Len(log)
                /\ ~log[i].slept
                /\ mr = [kind |-> "return", exc |-> "none", attempt |-> log[i].attempt]

C3_SuccessStops ==
    /\ []C3_SuccessIsLast
    /\ [][(InRequest /\ mr.kind = "return" /\ pc # "idle") =>
             /\ log' = log
             /\ mr' = mr
             /\ current_proxy_index' = current_proxy_index
             /\ handed' = handed
             /\ pc' \notin {"loop", "sleep"}]_vars

C3_Witness ==
    /\ InRequest
    /\ mr.kind = "return"
    /\ Len(log) >= 2
    /\ Len(log) < max_attempts
    /\ pc = "idle"
    /\ ret # None

\* C4 - proxy-swap has no backoff: no sleep follows an attempt that ended in
\* a ProxyError, one sleep follows an attempt that ended in a transient
\* failure and was not the last of the budget, and the next attempt starts
\* only after that sleep has ended.
C4_SleepAfter ==
    InRequest =>
        /\ \A i \in 1..Len(log) :
              /\ log[i].outcome = "ProxyError" => ~log[i].slept
              /\ (log[i].outcome = "Transient" /\ log[i].attempt < max_attempts - 1)
                    => log[i].slept
        /\ pc = "sleep" => (Len(log) >= 1 /\ Last(log).slept)
        /\ (pc = "loop" /\ Len(log) >= 1 /\ Last(log).outcome = "ProxyError")
              => attempt = Last(log).attempt + 1

C4_NoBackoffOnProxySwap ==
    /\ []C4_SleepAfter
    /\ [][pc = "sleep" => (pc' = "loop" /\ log' = log /\ attempt' = attempt + 1)]_vars
    /\ [][(InRequest /\ Len(log') = Len(log) + 1 /\ Last(log').slept) => pc' = "sleep"]_vars
    /\ [][(InRequest /\ Len(log') = Len(log) + 1 /\ Last(log').outcome = "ProxyError")
             => pc' # "sleep"]_vars

C4_Witness ==
    /\ InRequest
    /\ \E i, j \in 1..(Len(log) - 1) :
          /\ log[i].outcome = "ProxyError"
          /\ log[i + 1].outcome = "ProxyError"
          /\ log[j].outcome = "Transient"
          /\ log[j + 1].outcome = "Transient"

\* C5 - fatal failures surface immediately: an attempt that fails with a
\* RequestException for a non-retryable status is the last attempt of the
\* invocation, is followed by no sleep, and its failure is what
\* make_request raises.
C5_FatalSurfacesImmediately ==
    InRequest =>
        \A i \in 1..Len(log) :
            log[i].outcome = "Fatal" =>
                /\ i = Len(log)
                /\ ~log[i].slept
                /\ mr = [kind |-> "raise", exc |-> "Fatal", attempt |-> log[i].attempt]

\* C6 - client operations never raise: send_message, get_agent_status and
\* stream_chat end with a value, and every failure of make_request is
\* represented as an error record.
C6_NeverRaises ==
    (InRequest /\ ret # None) =>
        /\ ret.kind = "value"
        /\ mr.kind = "raise" =>
              IF op = "stream_chat"
              THEN Len(yielded) >= 1 /\ "error" \in DOMAIN Last(yielded)
              ELSE "error" \in DOMAIN ret.value

\* C7 - cursor invariant: with a non-empty pool the cursor is a valid index
\* of the list; a get_next_proxy call that returns an endpoint advances it
\* by one modulo the pool size, and no other step changes it.
C7_CursorInRange == N >= 1 => (current_proxy_index >= 0 /\ current_proxy_index < N)

C7_CursorInvariant ==
    /\ []C7_CursorInRange
    /\ [][IF Len(handed') = Len(handed) + 1
          THEN current_proxy_index' = (current_proxy_index + 1) % N
          ELSE current_proxy_index' = current_proxy_index]_vars
    /\ [][proxies' = proxies]_vars

C7_Witness ==
    /\ N >= 2
    /\ Len(handed) = N
    /\ current_proxy_index = 0
    /\ Last(handed).idx = N - 1

\* C8 - concurrent round-robin: with concurrent callers, every N
\* consecutive completed get_next_proxy calls on a pool of N distinct
\* endpoints hand out every endpoint exactly once: none twice, none skipped.
C8_ConcurrentRoundRobin ==
    (N >= 1 /\ Distinct(proxies)) =>
        \A k \in 1..(Len(handed) - N + 1) :
            /\ {handed[k + i].idx : i \in 0..(N - 1)} = 0..(N - 1)
            /\ {handed[k + i].proxy : i \in 0..(N - 1)} = Range(proxies)

\* C9 - exhaustion on a transient failure surfaces the cause: when the
\* attempt with index max_attempts-1 ends in a transient failure,
\* make_request raises the failure of that attempt and does not sleep.
C9_ExhaustionRaisesCause ==
    (InRequest /\ Len(log) >= 1 /\ Last(log).outcome = "Transient"
               /\ Last(log).attempt = max_attempts - 1) =>
        /\ mr = [kind |-> "raise", exc |-> "Transient", attempt |-> max_attempts - 1]
        /\ ~Last(log).slept
        /\ pc # "sleep"

C9_Witness ==
    /\ InRequest
    /\ Len(log) >= 2
    /\ Len(log) = max_attempts
    /\ Last(log).outcome = "Transient"
    /\ log[1].outcome = "Fatal"
    /\ pc = "idle"
    /\ ret # None

\* C10 - generic exhaustion error: make_request raises the generic 'All
\* proxy attempts failed' error exactly when all max_attempts attempts were
\* made and the last one ended in a ProxyError; once the attempts are used
\* up make_request has returned a response or raised, never fallen through.
C10_GenericExhaustion ==
    InRequest =>
        /\ Len(log) = max_attempts =>
              (mr.kind = "raise" \/ (mr.kind = "return" /\ Last(log).outcome = "Success"))
        /\ (Len(log) = max_attempts /\ Last(log).outcome = "ProxyError")
              => mr = [kind |-> "raise", exc |-> "Generic", attempt |-> -1]
        /\ (mr.kind = "raise" /\ mr.exc = "Generic")
              => (Len(log) = max_attempts /\ Last(log).outcome = "ProxyError")
        /\ pc = "loop" => attempt < max_attempts

C10_Witness ==
    /\ InRequest
    /\ N >= 2
    /\ mr = [kind |-> "raise", exc |-> "Generic", attempt |-> -1]
    /\ \E i \in 1..Len(log) : log[i].outcome = "Transient"
    /\ ret # None

\* C13 - streaming failure is one terminal error record: at most one error
\* record is yielded, it is the last record and the sequence has ended; a
\* failure to establish the stream yields nothing but it, and a mid-stream
\* failure adds it to the records yielded before.
IsError(r) == "error" \in DOMAIN r

C13_ErrorIsLast ==
    op = "stream_chat" =>
        /\ \A i \in 1..Len(yielded) :
              IsError(yielded[i]) =>
                 (i = Len(yielded) /\ pc = "idle" /\ ret = Value("StopIteration"))
        /\ (pc = "idle" /\ mr.kind = "raise" /\ IsRequestException(mr.exc)) =>
              yielded = <<ErrorRecord(op, mr.exc)>>

C13_OneTerminalError ==
    /\ []C13_ErrorIsLast
    /\ [][(op = "stream_chat" /\ op' = op /\ yielded' # yielded /\ Len(yielded') >= 1
              /\ IsError(Last(yielded'))) => Front(yielded') = yielded]_vars

C13_Witness ==
    /\ op = "stream_chat"
    /\ Len(yielded) >= 2
    /\ IsError(Last(yielded))
    /\ ~IsError(yielded[1])

\* C14 - no retry after partial delivery: every physical attempt, backoff
\* sleep and cursor advance of stream_chat happens before the first record
\* is yielded; while the stream is read, and when it fails, nothing is
\* attempted, no proxy is selected and nothing sleeps.
C14_AttemptsBeforeRecords ==
    (op = "stream_chat" /\ Len(yielded) >= 1) => pc \in {"stream", "idle"}

C14_NoRetryMidStream ==
    /\ []C14_AttemptsBeforeRecords
    /\ [][(op = "stream_chat" /\ pc = "stream") =>
             /\ log' = log
             /\ attempt' = attempt
             /\ current_proxy_index' = current_proxy_index
             /\ handed' = handed
             /\ pc' \in {"stream", "idle"}]_vars

C14_Witness ==
    /\ op = "stream_chat"
    /\ pc = "idle"
    /\ Len(log) >= 2
    /\ log[1].slept
    /\ Len(yielded) >= 2
    /\ IsError(Last(yielded))
    /\ Last(yielded).error[2] = "ChunkedEncodingError"

\* C16 - every operation eventually returns: when attempts resolve and
\* sleeps end, a make_request that has been entered eventually returns or
\* raises, and the operation that entered it eventually ends with a result.
C16_EventuallyReturns ==
    /\ (pc = "loop") ~> (mr # None)
    /\ (pc # "idle") ~> (pc = "idle" /\ ret # None)

C16_Witness ==
    /\ InRequest
    /\ pc = "idle"
    /\ ret # None
    /\ N >= 2
    /\ Len(log) = N + 1
    /\ \A i \in 1..N : log[i].slept

\* C17 - uniform failure shape: whenever send_message of one of the three
\* clients fails at the transport level (a RequestException, an HTTPError or
\* a URLError), it returns a mapping whose only key is 'error'; when the
\* attempt succeeds with a JSON body it returns the decoded body.
SendOps == {"send_message", "AIAgentClient.send_message", "SimpleAIAgent.send_message"}

TransportFailure ==
    IF op = "send_message" THEN mr.kind = "raise" /\ IsRequestException(mr.exc)
    ELSE Len(log) = 1
         /\ log[1].outcome \in {"ProxyError", "Transient", "Fatal", "HTTPError", "URLError"}

C17_UniformFailureShape ==
    (op \in SendOps /\ pc = "idle" /\ ret # None /\ TransportFailure) =>
        /\ ret.kind = "value"
        /\ DOMAIN ret.value = {"error"}
        /\ ret.value.error[1] \in STRING

\* C18 (as claimed) - with an empty proxy list and an unreachable base URL
\* the status operation makes exactly one physical attempt, does not sleep,
\* and returns an error record whose message begins with 'Request failed: '.
StatusOps == {"get_agent_status", "AIAgentClient.get_agent_status", "SimpleAIAgent.get_status"}

Unreachable ==
    /\ op \in StatusOps
    /\ pc = "idle"
    /\ ret # None
    /\ op = "get_agent_status" => N = 0
    /\ Len(log) >= 1
    /\ log[1].outcome = (IF op = "SimpleAIAgent.get_status" THEN "URLError" ELSE "Transient")

StatusFailure(prefix) ==
    /\ Len(log) = 1
    /\ ~log[1].slept
    /\ ret.kind = "value"
    /\ DOMAIN ret.value = {"error"}
    /\ ret.value.error[1] = prefix

C18_StatusRequestFailed == Unreachable => StatusFailure("Request failed: ")

\* C18 (amended) - ... and returns an error record whose message begins
\* with 'Status check failed: ' (ProxyRotatingAIAgent and AIAgentClient) or
\* with 'URL Error: ' (SimpleAIAgent).
C18_StatusCheckFailed ==
    Unreachable =>
        StatusFailure(IF op = "SimpleAIAgent.get_status" THEN "URL Error: "
                      ELSE "Status check failed: ")

C18_Witness ==
    /\ Unreachable
    /\ op = "get_agent_status"
    /\ ret = Value([error |-> <<"Status check failed: ", "Transient">>])

\* C19 - every proxy gets a try: when a make_request invocation on a pool
\* of N >= 1 endpoints uses up its budget of N+1 attempts without a success,
\* the attempts went through N+1 consecutive cursor positions, so every
\* position 0..N-1, and with it every endpoint of the pool, was used for at
\* least one physical attempt, wherever the cursor stood at the start.
Used(i) == handed[Len(handed) - Len(log) + i]

BudgetUsedUp ==
    /\ InRequest
    /\ N >= 1
    /\ Len(log) = N + 1
    /\ \A i \in 1..Len(log) : log[i].outcome # "Success"

C19_EveryProxyTried ==
    BudgetUsedUp =>
        /\ Len(handed) >= Len(log)
        /\ \A i \in 1..Len(log) : log[i].proxy = Used(i).proxy
        /\ {Used(i).idx : i \in 1..Len(log)} = 0..(N - 1)
        /\ Range(proxies) \subseteq {log[i].proxy : i \in 1..Len(log)}

C19_Witness ==
    /\ BudgetUsedUp
    /\ N >= 2
    /\ Distinct(proxies)
    /\ Used(1).idx # 0
    /\ pc = "idle"

\* C20 - empty pool: get_next_proxy on an empty pool returns None and leaves
\* the cursor at its initial value 0, however often it is called, and every
\* attempt of make_request on an empty pool is issued with no proxy.
C20_EmptyPool ==
    N = 0 =>
        /\ current_proxy_index = 0
        /\ handed = <<>>
        /\ (op = "get_next_proxy" /\ ret # None) => ret = Value(NoProxy)
        /\ InRequest => \A i \in 1..Len(log) : log[i].proxy = NoProxy

C20_Witness ==
    /\ N = 0
    /\ InRequest
    /\ Len(log) = 1
    /\ log[1].proxy = NoProxy
    /\ current_proxy_index = 0
    /\ pc = "idle"

\* C21 - the pool is only touched through the cursor: no step of
\* get_next_proxy, make_request, send_message, get_agent_status or stream_chat
\* adds, removes, reorders or replaces an entry of the proxy list, so the
\* list stays the one given at construction while the cursor moves.
C21_PoolUnchanged == [][proxies' = proxies]_vars

C21_Witness ==
    /\ op = "stream_chat"
    /\ pc = "idle"
    /\ N >= 2
    /\ Distinct(proxies)
    /\ Len(handed) >= N + 1
    /\ current_proxy_index # 0

\* C23 - the cursor carries over: a make_request invocation that has made k
\* physical attempts on a pool of N >= 1 endpoints has the cursor at
\* (c0 + k) mod N, c0 being the cursor at entry, however it ends; c0 is the
\* position after the one handed out last before the invocation (0 only if
\* nothing was handed out before).
C23_CursorCarriesOver ==
    (InRequest /\ N >= 1 /\ Len(log) >= 1) =>
        /\ Len(handed) >= Len(log)
        /\ current_proxy_index = (Used(1).idx + Len(log)) % N
        /\ Len(handed) = Len(log) => Used(1).idx = 0
        /\ Len(handed) > Len(log) =>
               Used(1).idx = (handed[Len(handed) - Len(log)].idx + 1) % N

C23_Witness ==
    /\ InRequest
    /\ pc = "idle"
    /\ N >= 2
    /\ Distinct(proxies)
    /\ Len(log) >= 1
    /\ Len(handed) > Len(log)
    /\ Used(1).idx # 0
    /\ mr.kind = "raise"

\* C24 - no attempt is direct when a pool exists: with N >= 1 endpoints every
\* physical attempt of make_request goes through the endpoint at the cursor
\* position it read; when all N+1 attempts are made the last one reads the
\* position of the first, so that position is used twice and every other
\* position once.
C24_NoDirectAttempt ==
    (InRequest /\ N >= 1) =>
        /\ \A i \in 1..Len(log) : log[i].proxy # NoProxy
        /\ Len(handed) >= Len(log)
        /\ \A i \in 1..Len(log) : log[i].proxy = proxies[Used(i).idx + 1]
        /\ Len(log) = N + 1 =>
               /\ Used(N + 1).idx = Used(1).idx
               /\ log[N + 1].proxy = log[1].proxy
               /\ \A j \in 0..(N - 1) :
                      Cardinality({i \in 1..(N + 1) : Used(i).idx = j})
                          = IF j = Used(1).idx THEN 2 ELSE 1

C24_Witness ==
    /\ InRequest
    /\ N >= 2
    /\ Distinct(proxies)
    /\ Len(log) = N + 1
    /\ Last(log).outcome = "Success"
    /\ Used(1).idx # 0

\* C22 - proxy list loading: load_proxy_list returns the entries of the file
\* (the lines in file order, stripped, without the blank ones and the ones
\* that start with '#' once stripped), followed by the entries of the
\* comma-separated environment value (the pieces in order, stripped, without
\* the blank ones); every returned entry is stripped and non-empty.
SepPositions(s, sep) == {i \in 1..Len(s) : s[i] = sep}

\* The k-th piece of s between separators sep (k = 1 .. number of sep + 1).
Piece(s, sep, k) ==
    LET P == SepPositions(s, sep)
        from == IF k = 1 THEN 0
                ELSE CHOOSE i \in P : Cardinality({j \in P : j < i}) = k - 2
        to == IF k = Cardinality(P) + 1 THEN Len(s) + 1
              ELSE CHOOSE i \in P : Cardinality({j \in P : j < i}) = k - 1
    IN SubSeq(s, from + 1, to - 1)

Pieces(s, sep) == [k \in 1..(Cardinality(SepPositions(s, sep)) + 1) |-> Piece(s, sep, k)]

IsStripped(e) == e # <<>> /\ e[1] \notin Whitespace /\ e[Len(e)] \notin Whitespace

\* e without its surrounding whitespace, said without stripping: the part
\* of e from its first to its last character that is not whitespace.
Core(e) ==
    LET I == {i \in 1..Len(e) : e[i] \notin Whitespace}
    IN IF I = {} THEN <<>>
       ELSE SubSeq(e, CHOOSE i \in I : \A j \in I : i <= j,
                      CHOOSE i \in I : \A j \in I : i >= j)

Cores(ps) == [i \in 1..Len(ps) |-> Core(ps[i])]

FileEntries(file) ==
    IF file = NoFile THEN <<>>
    ELSE SelectSeq(Cores(Pieces(file, "NL")), LAMBDA e : e # <<>> /\ e[1] # "#")

EnvEntries(env) == SelectSeq(Cores(Pieces(env, ",")), LAMBDA e : e # <<>>)

C22_ProxyListLoading ==
    loaded # None =>
        /\ loaded.kind = "value"
        /\ loaded.value = FileEntries(proxy_file) \o EnvEntries(env_proxies)
        /\ \A i \in 1..Len(loaded.value) : IsStripped(loaded.value[i])

C22_Witness ==
    /\ loaded # None
    /\ proxy_file = <<"#", "NL", "a">>
    /\ env_proxies = <<"SP", ",", "#">>
    /\ loaded.value = << <<"a">>, <<"#">> >>

\* C25 - console bot lifecycle: the keys of active_bots are always among
\* instagram, facebook and tiktok; 'start p' for a valid p that is not running
\* adds p with status running, 'start p' for a running p changes nothing and
\* is not an error, 'stop p' removes p when it is running and otherwise
\* returns an error and changes nothing; no other command line changes
\* active_bots.
Running == DOMAIN active_bots

Given == Words(command_line')
GivenCmd == IF Given = <<>> THEN "" ELSE Lower(Given[1])
GivenArg == IF Len(Given) < 2 THEN "" ELSE Lower(Given[2])

Lifecycle ==
    CASE GivenCmd = "start" /\ GivenArg \in Platforms \ Running ->
            /\ DOMAIN active_bots' = Running \cup {GivenArg}
            /\ active_bots'[GivenArg].status = "running"
            /\ \A q \in Running : active_bots'[q] = active_bots[q]
            /\ ~result'.error
      [] GivenCmd = "start" /\ GivenArg \in Running ->
            /\ active_bots' = active_bots
            /\ ~result'.error
      [] GivenCmd = "stop" /\ GivenArg \in Running ->
            /\ DOMAIN active_bots' = Running \ {GivenArg}
            /\ \A q \in Running \ {GivenArg} : active_bots'[q] = active_bots[q]
            /\ ~result'.error
      [] GivenCmd = "stop" ->
            /\ active_bots' = active_bots
            /\ result'.error
      [] OTHER -> active_bots' = active_bots

C25_BotLifecycle ==
    /\ [](Running \subseteq Platforms)
    /\ [][Lifecycle]_vars

C25_Witness ==
    /\ Len(command_history) = 3
    /\ command_history[1].command = <<"start", "SP", "instagram">>
    /\ command_history[2].command = <<"SP", "START", "SP", "Instagram">>
    /\ command_history[3].command = <<"stop", "SP", "instagram">>
    /\ Running = {}
    /\ result = Out("Stopped", FALSE)

\* C26 - console command history is append-only: process appends exactly
\* one entry, the command line, for every command line that is not blank,
\* the unknown and the failing ones included, and nothing for a blank one; no
\* command removes or reorders entries, and 'history' given to process never
\* finds the history empty.
IsBlankLine(line) == \A i \in 1..Len(line) : line[i] = "SP"

AppendOnly ==
    IF IsBlankLine(command_line')
    THEN command_history' = command_history
    ELSE command_history' = Append(command_history, [command |-> command_line'])

C26_HistoryAppendOnly ==
    /\ [][AppendOnly]_vars
    /\ []((command_line = <<"history">> /\ result # None) =>
              (result.output = "Last Commands" /\ result.shown >= 1))

C26_Witness ==
    /\ Len(command_history) = 3
    /\ command_history[1].command = <<"bogus">>
    /\ command_history[2].command = <<"clear">>
    /\ command_line = <<"history">>
    /\ result.shown = 3

\* ---------------------------------------------- properties of the stream
Received == SubSeq(content, 1, rpos)

\* Position of the last line terminator of s (0 if there is none), the part
\* of s up to it, and the unterminated rest.
LastTerminator(s) ==
    IF \E i \in 1..Len(s) : s[i] \in Terminators
    THEN CHOOSE i \in 1..Len(s) :
            s[i] \in Terminators /\ \A j \in (i + 1)..Len(s) : s[j] \notin Terminators
    ELSE 0
TerminatedPart(s) == SubSeq(s, 1, LastTerminator(s))
Unterminated(s) == SubSeq(s, LastTerminator(s) + 1, Len(s))

\* The records of a byte string taken as a whole, in the order of its lines.
Expected(s) == ProcessLines(SplitLines(s), 1, <<>>)

NoErrorRecord == \A i \in 1..Len(yielded) : "error" \notin DOMAIN yielded[i]
StreamOver == op = "stream_chat" /\ pc = "idle" /\ ret # None
SourceExhausted == StreamOver /\ NoErrorRecord /\ rpos = Len(content)

\* C11 - stream order and line integrity: however the body is split into
\* chunks, the records yielded so far are the records of the lines received
\* completely, in the order of the body, the unterminated rest is carried in
\* pending, and the records yielded in the end depend on the body only.
C11_StreamIntegrity ==
    /\ pc = "stream" =>
          /\ pending = Unterminated(Received)
          /\ yielded = Expected(TerminatedPart(Received)).yielded
          /\ ~Expected(TerminatedPart(Received)).raised
    /\ (StreamOver /\ NoErrorRecord) =>
          /\ yielded = Expected(content).yielded
          /\ (ret.kind = "raised") = Expected(content).raised
    /\ (StreamOver /\ ~NoErrorRecord) =>
          Front(yielded) = Expected(TerminatedPart(Received)).yielded

C11_Witness ==
    /\ pc = "stream"
    /\ Len(yielded) >= 1
    /\ Len(pending) >= 1
    /\ rpos < Len(content)
    /\ content[rpos + 1] = "D"
    /\ IsJson(pending)

\* C12 - malformed-line resilience: a stream that meets no transport failure
\* never raises to the consumer, and once it is exhausted the number of
\* yielded records is the number of well-formed non-empty lines of the body.
WellFormed(s) ==
    {i \in 1..Len(SplitLines(s)) : IsUtf8(SplitLines(s)[i]) /\ IsJson(SplitLines(s)[i])}

C12_MalformedLineResilience ==
    (StreamOver /\ NoErrorRecord) =>
        /\ ret.kind # "raised"
        /\ rpos = Len(content) => Len(yielded) = Cardinality(WellFormed(content))

\* C15 (as claimed) - a pending fragment, even one that is a JSON document,
\* is neither decoded nor yielded when the source is exhausted.
C15_TrailingFragmentDiscarded ==
    (SourceExhausted /\ IsJson(Unterminated(content))
                     /\ ~Expected(TerminatedPart(content)).raised) =>
        /\ yielded = Expected(TerminatedPart(content)).yielded
        /\ ret = Value("StopIteration")

\* C15 (amended) - when the source is exhausted while a non-empty fragment
\* is pending, the fragment is handled like a terminated line: yielded if it
\* is a JSON document, dropped if it is malformed, UnicodeDecodeError if it
\* is not UTF-8; then the sequence ends.
C15_TrailingFragmentIsLastLine ==
    (SourceExhausted /\ Unterminated(content) # <<>>
                     /\ ~Expected(TerminatedPart(content)).raised) =>
        LET before == Expected(TerminatedPart(content)).yielded
            frag == Unterminated(content)
        IN /\ IsJson(frag) /\ IsUtf8(frag) =>
                 (yielded = Append(before, [data |-> frag]) /\ ret = Value("StopIteration"))
           /\ ~IsJson(frag) /\ IsUtf8(frag) =>
                 (yielded = before /\ ret = Value("StopIteration"))
           /\ ~IsUtf8(frag) =>
                 (yielded = before /\ ret = Raised("UnicodeDecodeError"))

C15_Witness ==
    /\ SourceExhausted
    /\ IsJson(Unterminated(content))
    /\ Len(yielded) >= 2
    /\ Last(yielded) = [data |-> Unterminated(content)]

====
